---------------------------- MODULE Spec2Model ----------------------------
(***************************************************************************)
(* A model of the dispute automation engine (src/dispute_automation.py)    *)
(* and of the decision logic of its collaborators: the eligibility gate    *)
(* and the resolution builder (src/smartsheet_integration.py), the log     *)
(* classifier and the rebooking detector (src/snowflake_integration.py),   *)
(* the profile validation (src/customer_profile_integration.py).           *)
(*                                                                         *)
(* Text is modelled as text: TLA+ strings, with lower(), upper(), split()  *)
(* and substring search computed character by character (ASCII letters).   *)
(***************************************************************************)
EXTENDS Integers, Sequences, FiniteSets, TLC

VARIABLES
    sheet,          \* the queue store: row id -> the row's cells and attachments
    engine,         \* the engine of the current process: statistics, connection
    pc,             \* where run_automation stands: "idle", "running", "done", "failed"
    dispute_rows,   \* the rows listed at the start of the current run (snapshots)
    idx,            \* how many rows of dispute_rows the loop has gone through
    run,            \* per row, what the current run did to it
    last,           \* what the latest call of _process_dispute_row did
    runs,           \* how many runs have been started (bounded by MaxRuns)
    written,        \* per row, how many write-backs the store has accepted so far
    fn_in,          \* the input of the pure function under examination
    fn_out,         \* its result
    fn_done         \* whether it has been applied

vars == <<sheet, engine, pc, dispute_rows, idx, run, last, runs, written, fn_in, fn_out, fn_done>>
main_vars == <<sheet, engine, pc, dispute_rows, idx, run, last, runs, written>>
fn_vars == <<fn_in, fn_out, fn_done>>

----------------------------------------------------------------------------
(* Text *)

UpperChars == "ABCDEFGHIJKLMNOPQRSTUVWXYZ"
LowerChars == "abcdefghijklmnopqrstuvwxyz"

CharAt(s, i) == SubSeq(s, i, i)

\* the letter pairs, as maps from one case to the other
ToLower == [c \in {CharAt(UpperChars, i) : i \in 1..Len(UpperChars)} |->
               CharAt(LowerChars, CHOOSE i \in 1..Len(UpperChars) : CharAt(UpperChars, i) = c)]

ToUpper == [c \in {CharAt(LowerChars, i) : i \in 1..Len(LowerChars)} |->
               CharAt(UpperChars, CHOOSE i \in 1..Len(LowerChars) : CharAt(LowerChars, i) = c)]

LowerChar(c) == IF c \in DOMAIN ToLower THEN ToLower[c] ELSE c

UpperChar(c) == IF c \in DOMAIN ToUpper THEN ToUpper[c] ELSE c

\* str.lower, character by character (the string is halved to keep the
\* evaluation shallow)
RECURSIVE lower(_)
lower(s) ==
    IF Len(s) <= 1 THEN LowerChar(s)
    ELSE LET half == Len(s) \div 2
         IN  lower(SubSeq(s, 1, half)) \o lower(SubSeq(s, half + 1, Len(s)))

\* str.upper, character by character (the string is halved to keep the
\* evaluation shallow)
RECURSIVE upper(_)
upper(s) ==
    IF Len(s) <= 1 THEN UpperChar(s)
    ELSE LET half == Len(s) \div 2
         IN  upper(SubSeq(s, 1, half)) \o upper(SubSeq(s, half + 1, Len(s)))

\* Python's `p in s`
Contains(s, p) ==
    \E i \in 1..(Len(s) + 1) :
        /\ i + Len(p) - 1 <= Len(s)
        /\ SubSeq(s, i, i + Len(p) - 1) = p

\* Python's s.split(): the maximal runs of non-blank characters, in order
RECURSIVE split_from(_, _, _)
split_from(s, i, word) ==
    IF i > Len(s)
    THEN IF word = "" THEN <<>> ELSE <<word>>
    ELSE IF CharAt(s, i) = " "
         THEN (IF word = "" THEN <<>> ELSE <<word>>) \o split_from(s, i + 1, "")
         ELSE split_from(s, i + 1, word \o CharAt(s, i))

split(s) == split_from(s, 1, "")

\* the sequences of at most n elements of S
RECURSIVE SeqsUpTo(_, _)
SeqsUpTo(S, n) ==
    IF n = 0 THEN {<<>>}
    ELSE SeqsUpTo(S, n - 1) \cup {Append(q, x) : q \in SeqsUpTo(S, n - 1), x \in S}

\* dict.get(key, default)
Get(d, key, default) == IF key \in DOMAIN d THEN d[key] ELSE default

----------------------------------------------------------------------------
(* Config *)

DISPUTE_COLUMNS ==
    {"round_1_notes", "round_1_supplier_comments", "round_1_status",
     "round_1_completion", "client_reference"}

ERROR_PATTERNS ==
    <<"SUPPLIER_CONFIRMATION_ERROR", "CONNECTION_ERROR", "TIMEOUT_ERROR",
      "PROVIDER_ERROR", "BOOKING_FAILED">>

DISPUTE_TRIGGERS ==
    <<"The booking was marked as invalid by the supplier, please provide the logs.",
      "The booking was marked by supplier as provider error. Please provide logs.",
      "booking was marked as invalid",
      "provider error",
      "supplier error">>

STATUS_UPDATES ==
    [supplier_comments_from |-> "in escalation process",
     supplier_comments_to   |-> "reviewed by ST technical team",
     status_from            |-> "escalation",
     status_to              |-> "will not pay",
     completion_from        |-> "need help",
     completion_to          |-> "ready to submit"]

----------------------------------------------------------------------------
(* The eligibility gate *)

\* validate_row_eligibility with `and` for `or` in the initial-state test
validate_row_eligibility_AnyMatch(row_data) ==
    LET supplier_comments == lower(Get(row_data, "supplier_comments", ""))
        status            == lower(Get(row_data, "status", ""))
        completion        == lower(Get(row_data, "completion", ""))
    IN  IF /\ supplier_comments = lower(STATUS_UPDATES.supplier_comments_to)
           /\ status = lower(STATUS_UPDATES.status_to)
           /\ completion = lower(STATUS_UPDATES.completion_to)
        THEN <<FALSE, "Already processed">>
        ELSE IF /\ supplier_comments # lower(STATUS_UPDATES.supplier_comments_from)
                /\ status # lower(STATUS_UPDATES.status_from)
                /\ completion # lower(STATUS_UPDATES.completion_from)
             THEN <<FALSE, "Not in expected initial state">>
             ELSE <<TRUE, "Eligible for processing">>

\* validate_row_eligibility comparing the cells as they are, without .lower()
validate_row_eligibility_CaseSensitive(row_data) ==
    LET supplier_comments == Get(row_data, "supplier_comments", "")
        status            == Get(row_data, "status", "")
        completion        == Get(row_data, "completion", "")
    IN  IF /\ supplier_comments = STATUS_UPDATES.supplier_comments_to
           /\ status = STATUS_UPDATES.status_to
           /\ completion = STATUS_UPDATES.completion_to
        THEN <<FALSE, "Already processed">>
        ELSE IF \/ supplier_comments # STATUS_UPDATES.supplier_comments_from
                \/ status # STATUS_UPDATES.status_from
                \/ completion # STATUS_UPDATES.completion_from
             THEN <<FALSE, "Not in expected initial state">>
             ELSE <<TRUE, "Eligible for processing">>

validate_row_eligibility(row_data) ==
    LET supplier_comments == lower(Get(row_data, "supplier_comments", ""))
        status            == lower(Get(row_data, "status", ""))
        completion        == lower(Get(row_data, "completion", ""))
    IN  IF /\ supplier_comments = lower(STATUS_UPDATES.supplier_comments_to)
           /\ status = lower(STATUS_UPDATES.status_to)
           /\ completion = lower(STATUS_UPDATES.completion_to)
        THEN <<FALSE, "Already processed">>
        ELSE IF \/ supplier_comments # lower(STATUS_UPDATES.supplier_comments_from)
                \/ status # lower(STATUS_UPDATES.status_from)
                \/ completion # lower(STATUS_UPDATES.completion_from)
             THEN <<FALSE, "Not in expected initial state">>
             ELSE <<TRUE, "Eligible for processing">>


----------------------------------------------------------------------------
(* Python's None, and the truth value of an optional string *)

None == "<None>"

Truthy(x) == x # None /\ x # ""

----------------------------------------------------------------------------
(* The log classifier *)

text_columns == <<"reason", "detailed_status", "response", "request">>

\* df[column].astype(str).str.upper()
column_text(df, column) == [i \in 1..Len(df) |-> upper(df[i][column])]

\* column_text.str.contains(pattern, na=False).any()
any_contains(texts, pattern) == \E i \in 1..Len(texts) : Contains(texts[i], pattern)

\* for error_pattern in Config.ERROR_PATTERNS: the first one some row contains
RECURSIVE first_pattern_from(_, _)
first_pattern_from(texts, k) ==
    IF k > Len(ERROR_PATTERNS) THEN None
    ELSE IF any_contains(texts, ERROR_PATTERNS[k]) THEN ERROR_PATTERNS[k]
    ELSE first_pattern_from(texts, k + 1)

\* word_before_error_from taking the first word of the text, not the word before ERROR
word_before_error_from_FirstWord(words, i) ==
    IF \E w \in 2..Len(words) : Contains(words[w], "ERROR") THEN words[1] \o "_ERROR" ELSE None

\* for i, word in enumerate(words): if 'ERROR' in word and i > 0
RECURSIVE word_before_error_from(_, _)
word_before_error_from(words, i) ==
    IF i > Len(words) THEN None
    ELSE IF Contains(words[i], "ERROR") /\ i > 1 THEN words[i - 1] \o "_ERROR"
    ELSE word_before_error_from(words, i + 1)

\* for idx, text in enumerate(column_text): if 'ERROR' in text
RECURSIVE extract_error_from(_, _)
extract_error_from(texts, t) ==
    IF t > Len(texts) THEN "GENERAL_ERROR"
    ELSE LET found == IF Contains(texts[t], "ERROR")
                      THEN word_before_error_from(split(texts[t]), 1)
                      ELSE None
         IN  IF found # None THEN found ELSE extract_error_from(texts, t + 1)

\* for column in text_columns
RECURSIVE detect_in_columns(_, _)
detect_in_columns(df, c) ==
    IF c > Len(text_columns) THEN None
    ELSE LET texts == column_text(df, text_columns[c])
         IN  IF first_pattern_from(texts, 1) # None THEN first_pattern_from(texts, 1)
             ELSE IF any_contains(texts, "ERROR") THEN extract_error_from(texts, 1)
             ELSE detect_in_columns(df, c + 1)

\* df: the rows of a data frame, in order
_detect_error_type(df) == IF Len(df) = 0 THEN None ELSE detect_in_columns(df, 1)

\* an Optional[pd.DataFrame]: None, or the frame of the rows fetched
NoFrame == [is_none |-> TRUE, rows |-> <<>>]

Frame(rows) == [is_none |-> FALSE, rows |-> rows]

\* logs_df is not None and not logs_df.empty
HasRows(logs_df) == ~logs_df.is_none /\ Len(logs_df.rows) > 0

\* get_booking_logs: from the query's answer (ok, rows) or its failure (not ok)
\* to (logs_df, detected error)
\* get_booking_logs returning the detected error without the rows
get_booking_logs_ErrorOnly(warehouse) ==
    IF warehouse.ok /\ Len(warehouse.rows) > 0
    THEN [logs_df |-> NoFrame, detected_error |-> _detect_error_type(warehouse.rows)]
    ELSE [logs_df |-> NoFrame, detected_error |-> None]

get_booking_logs(warehouse) ==
    IF warehouse.ok /\ Len(warehouse.rows) > 0
    THEN [logs_df |-> Frame(warehouse.rows),
          detected_error |-> _detect_error_type(warehouse.rows)]
    ELSE [logs_df |-> NoFrame, detected_error |-> None]

----------------------------------------------------------------------------
(* The profile service's signals *)

BAD_STATUSES == {"FAILED", "CANCELLED", "ERROR"}

\* for pattern in Config.ERROR_PATTERNS: if pattern in message or pattern in code
RECURSIVE pattern_in_error_from(_, _, _)
pattern_in_error_from(message, code, k) ==
    IF k > Len(ERROR_PATTERNS) THEN None
    ELSE IF Contains(message, ERROR_PATTERNS[k]) \/ Contains(code, ERROR_PATTERNS[k])
         THEN ERROR_PATTERNS[k]
         ELSE pattern_in_error_from(message, code, k + 1)

composite_keyword(error_message) ==
    IF Contains(error_message, "SUPPLIER") /\ Contains(error_message, "CONFIRMATION")
    THEN "SUPPLIER_CONFIRMATION_ERROR"
    ELSE IF Contains(error_message, "CONNECTION") THEN "CONNECTION_ERROR"
    ELSE IF Contains(error_message, "TIMEOUT") THEN "TIMEOUT_ERROR"
    ELSE IF Contains(error_message, "PROVIDER") THEN "PROVIDER_ERROR"
    ELSE None

\* for error in booking_errors
RECURSIVE scan_errors_from(_, _, _)
scan_errors_from(booking_errors, e, detected_error) ==
    IF e > Len(booking_errors) THEN detected_error
    ELSE LET error_message == upper(Get(booking_errors[e], "message", ""))
             error_code    == upper(Get(booking_errors[e], "code", ""))
             found         == pattern_in_error_from(error_message, error_code, 1)
             after_pattern == IF found # None THEN found ELSE detected_error
             after_keyword == IF ~Truthy(after_pattern) /\ composite_keyword(error_message) # None
                              THEN composite_keyword(error_message)
                              ELSE after_pattern
         IN  scan_errors_from(booking_errors, e + 1, after_keyword)

\* for log in cancellation_logs
RECURSIVE scan_cancellation_logs_from(_, _, _)
scan_cancellation_logs_from(cancellation_logs, l, detected_error) ==
    IF l > Len(cancellation_logs) THEN detected_error
    ELSE LET found == pattern_in_error_from(upper(Get(cancellation_logs[l], "message", "")), "", 1)
         IN  scan_cancellation_logs_from(cancellation_logs, l + 1,
                                         IF found # None THEN found ELSE detected_error)

\* profile: what the service answers, [booking |-> the booking record, or the
\* empty record when get_booking_details returns None (no booking, an HTTP
\* error, the service unreachable), cancellation_logs |-> a sequence, empty
\* when get_cancellation_logs returns [] or None]
validate_booking_status(profile) ==
    IF DOMAIN profile.booking = {}
    THEN [is_valid |-> FALSE, error_type |-> "BOOKING_NOT_FOUND"]
    ELSE LET booking_status == upper(Get(profile.booking, "status", ""))
             booking_errors == Get(profile.booking, "errors", <<>>)
             from_status    == IF booking_status \in BAD_STATUSES
                               THEN booking_status \o "_STATUS" ELSE None
             from_errors    == scan_errors_from(booking_errors, 1, from_status)
             detected_error == scan_cancellation_logs_from(profile.cancellation_logs, 1,
                                                           from_errors)
         IN  [is_valid   |-> detected_error = None /\ booking_status \notin BAD_STATUSES,
              error_type |-> detected_error]

get_comprehensive_booking_info(profile) ==
    [is_valid            |-> validate_booking_status(profile).is_valid,
     detected_error_type |-> validate_booking_status(profile).error_type]

----------------------------------------------------------------------------
(* The final classification *)

\* the profile consulted before the warehouse logs
_determine_error_type_ProfileFirst(cp_info, snowflake_error, logs_df) ==
    IF Truthy(cp_info.detected_error_type) THEN cp_info.detected_error_type
    ELSE IF Truthy(snowflake_error) THEN snowflake_error
    ELSE IF ~cp_info.is_valid THEN "BOOKING_INVALID"
    ELSE IF HasRows(logs_df) THEN "PROVIDER_ERROR"
    ELSE None

\* _determine_error_type without the generic PROVIDER_ERROR for signal-less logs
_determine_error_type_NoGeneric(cp_info, snowflake_error, logs_df) ==
    IF Truthy(snowflake_error) THEN snowflake_error
    ELSE IF Truthy(cp_info.detected_error_type) THEN cp_info.detected_error_type
    ELSE IF ~cp_info.is_valid THEN "BOOKING_INVALID"
    ELSE None

_determine_error_type(cp_info, snowflake_error, logs_df) ==
    IF Truthy(snowflake_error) THEN snowflake_error
    ELSE IF Truthy(cp_info.detected_error_type) THEN cp_info.detected_error_type
    ELSE IF ~cp_info.is_valid THEN "BOOKING_INVALID"
    ELSE IF HasRows(logs_df) THEN "PROVIDER_ERROR"
    ELSE None

----------------------------------------------------------------------------
(* The resolution builder *)

\* create_status_updates citing the error type whether or not there are logs
create_status_updates_CiteWithoutLogs(error_type, has_logs) ==
    [round_1_supplier_comments |-> STATUS_UPDATES.supplier_comments_to,
     round_1_status            |-> STATUS_UPDATES.status_to,
     round_1_completion        |-> STATUS_UPDATES.completion_to,
     round_1_notes             |->
         IF Truthy(error_type)
         THEN "The booking was not confirmed by the supplier, please find the logs attached. "
              \o "Our request log was met with an " \o upper(error_type) \o " ERROR."
         ELSE IF has_logs
              THEN "The booking was not confirmed by the supplier, please find the logs attached. "
                   \o "Our request log shows a provider error."
              ELSE "Technical review completed. No logs available for this booking."]

\* create_status_updates answering a second call differently from the first
create_status_updates_Stateful(error_type, has_logs) ==
    [round_1_supplier_comments |-> STATUS_UPDATES.supplier_comments_to,
     round_1_status            |-> STATUS_UPDATES.status_to,
     round_1_completion        |-> STATUS_UPDATES.completion_to,
     round_1_notes             |->
         IF Len(fn_out) > 0
         THEN "Technical review completed. No logs available for this booking."
         ELSE "The booking was not confirmed by the supplier, please find the logs attached. "
              \o "Our request log shows a provider error."]

\* create_status_updates leaving the status as it was when nothing was classified
create_status_updates_UnclassifiedKept(error_type, has_logs) ==
    [round_1_supplier_comments |-> STATUS_UPDATES.supplier_comments_to,
     round_1_status            |-> IF Truthy(error_type) THEN STATUS_UPDATES.status_to
                                   ELSE "Escalation",
     round_1_completion        |-> STATUS_UPDATES.completion_to,
     round_1_notes             |-> "Technical review completed. No logs available for this booking."]

create_status_updates(error_type, has_logs) ==
    [round_1_supplier_comments |-> STATUS_UPDATES.supplier_comments_to,
     round_1_status            |-> STATUS_UPDATES.status_to,
     round_1_completion        |-> STATUS_UPDATES.completion_to,
     round_1_notes             |->
         IF has_logs
         THEN IF Truthy(error_type)
              THEN "The booking was not confirmed by the supplier, please find the logs attached. "
                   \o "Our request log was met with an " \o upper(error_type) \o " ERROR."
              ELSE "The booking was not confirmed by the supplier, please find the logs attached. "
                   \o "Our request log shows a provider error."
         ELSE "Technical review completed. No logs available for this booking."]

----------------------------------------------------------------------------
(* The rebooking detector.  events: what booking_patch_events holds for    *)
(* the client reference, in created_at order, each row with its reason and *)
(* supplier_order_id; count_ok and cancel_ok: whether the counting query   *)
(* and the cancellation query succeed                                      *)

\* reason ilike '%cancel%'
IsCancel(event) == Contains(lower(event.reason), "cancel")

RECURSIVE CountFrom(_, _, _)
CountFrom(rows, i, cancel) ==
    IF i > Len(rows) THEN 0
    ELSE (IF IsCancel(rows[i]) = cancel THEN 1 ELSE 0) + CountFrom(rows, i + 1, cancel)

\* check_rebooking_scenario taking two bookings without a cancellation for no rebooking
check_rebooking_scenario_NeedsCancel(events) ==
    IF ~events.count_ok THEN <<>>
    ELSE [book_count   |-> CountFrom(events.rows, 1, FALSE),
          cancel_count |-> CountFrom(events.rows, 1, TRUE),
          is_rebooking |-> /\ CountFrom(events.rows, 1, TRUE) > 0
                           /\ CountFrom(events.rows, 1, FALSE) > 0]

\* None is the record without fields; otherwise the counts and is_rebooking
check_rebooking_scenario(events) ==
    IF ~events.count_ok THEN <<>>
    ELSE LET book_count   == CountFrom(events.rows, 1, FALSE)
             cancel_count == CountFrom(events.rows, 1, TRUE)
         IN  [book_count   |-> book_count,
              cancel_count |-> cancel_count,
              is_rebooking |-> book_count > 1 \/ (cancel_count > 0 /\ book_count > 0)]

\* order by created_at desc limit 1, among the rows whose reason is a cancellation;
\* None is the record without fields
RECURSIVE LastCancelFrom(_, _)
LastCancelFrom(rows, i) ==
    IF i < 1 THEN <<>>
    ELSE IF IsCancel(rows[i]) THEN [supplier_order_id |-> rows[i].supplier_order_id]
    ELSE LastCancelFrom(rows, i - 1)

get_cancellation_info(events) ==
    IF ~events.cancel_ok THEN <<>> ELSE LastCancelFrom(events.rows, Len(events.rows))

\* _handle_rebooking_scenario putting a new client reference among the updates
_handle_rebooking_scenario_Relabel(updates, rebooking_info, client_reference, events) ==
    [c \in DOMAIN updates \cup {"client_reference"} |->
        IF c = "client_reference" THEN client_reference \o "-R" ELSE updates[c]]

_handle_rebooking_scenario(updates, rebooking_info, client_reference, events) ==
    IF Get(rebooking_info, "cancel_count", 0) > 0 /\ DOMAIN get_cancellation_info(events) # {}
    THEN [updates EXCEPT !.round_1_notes =
              "We have attempted to cancel this booking before the last day for a full refund - "
              \o "please find the attachments. We then immediately booked " \o client_reference
              \o " after canceling "
              \o Get(get_cancellation_info(events), "supplier_order_id", "N/A") \o "."]
    ELSE updates

----------------------------------------------------------------------------
(* The queue store *)

WorkflowCells == {"round_1_notes", "round_1_supplier_comments", "round_1_status",
                  "round_1_completion"}

_is_dispute_row(notes_text) ==
    /\ notes_text # ""
    /\ \E t \in 1..Len(DISPUTE_TRIGGERS) : Contains(notes_text, lower(DISPUTE_TRIGGERS[t]))

\* the row dict get_dispute_rows builds of a sheet row
RowDict(row_id, cells) ==
    [row_id            |-> row_id,
     client_reference  |-> cells.client_reference,
     current_notes     |-> cells.round_1_notes,
     supplier_comments |-> cells.round_1_supplier_comments,
     status            |-> cells.round_1_status,
     completion        |-> cells.round_1_completion]

\* update_row answering True although the store refused the update
update_row_AlwaysTrue(cells, updates, attachment_path, api_ok, attach_ok) ==
    LET cells_to_update == DOMAIN updates \cap DISPUTE_COLUMNS
        accepted == cells_to_update # {} /\ api_ok
    IN  [result |-> TRUE,
         api_calls |-> IF cells_to_update # {} THEN 1 ELSE 0,
         attach_calls |-> IF accepted /\ attachment_path THEN 1 ELSE 0,
         cells |-> IF accepted
                   THEN [c \in DOMAIN cells |->
                            IF c \in cells_to_update THEN updates[c]
                            ELSE IF c = "attachments" /\ attachment_path /\ attach_ok
                                 THEN cells[c] + 1 ELSE cells[c]]
                   ELSE cells]

\* cells: the row in the store; attachment_path: whether a file path is given;
\* api_ok: whether Sheets.update_rows answers with a result (it raises or answers
\* without one otherwise); attach_ok: the same of Attachments.attach_file_to_row
update_row(cells, updates, attachment_path, api_ok, attach_ok) ==
    LET cells_to_update == DOMAIN updates \cap DISPUTE_COLUMNS
        accepted == cells_to_update # {} /\ api_ok
    IN  [result |-> accepted,
         api_calls |-> IF cells_to_update # {} THEN 1 ELSE 0,
         attach_calls |-> IF accepted /\ attachment_path THEN 1 ELSE 0,
         cells |-> IF accepted
                   THEN [c \in DOMAIN cells |->
                            IF c \in cells_to_update THEN updates[c]
                            ELSE IF c = "attachments" /\ attachment_path /\ attach_ok
                                 THEN cells[c] + 1 ELSE cells[c]]
                   ELSE cells]

LogRecord(reason, detailed_status, response, request) ==
    [reason |-> reason, detailed_status |-> detailed_status,
     response |-> response, request |-> request]

Booking(status, errors) == [status |-> status, errors |-> errors]

ProfileError(message, code) == [message |-> message, code |-> code]

----------------------------------------------------------------------------
(* One row's pipeline.  env is what the collaborators do while the row is  *)
(* processed: the profile service's answer, the warehouse's answers        *)
(* (warehouse for the log query, events for the two rebooking queries),    *)
(* whether the log file can be saved (save_ok), whether the store accepts  *)
(* the update (api_ok) and the attachment (attach_ok), and which call, if  *)
(* any, raises (fault).                                                    *)
(*                                                                         *)
(* dispute_logger.info, .warning and .error hand a message to logging,     *)
(* whose handlers keep their own failures to themselves; they are taken    *)
(* not to raise.  log_query_execution, log_row_processing and audit build  *)
(* and store an audit entry of their own and can raise:                    *)
(*   "get_booking_logs"   log_query_execution raises in get_booking_logs'  *)
(*                        own handler (snowflake_integration.py:136)       *)
(*   "log_row_processing" the call at dispute_automation.py:157 raises     *)
(*   "audit"              the call at dispute_automation.py:162 raises     *)
(* and, with handler_raises, so does the log_row_processing call of the    *)
(* row's own handler (dispute_automation.py:177), which leaves the         *)
(* exception to run_automation's handler.                                  *)

Faults == {"none", "get_booking_logs", "log_row_processing", "audit"}

\* self.processing_stats[c] += 1 for every c of counted
count(processing_stats, counted) ==
    [c \in DOMAIN processing_stats |->
        IF c \in counted THEN processing_stats[c] + 1 ELSE processing_stats[c]]

\* an exception reaching the handler at dispute_automation.py:175-179 and,
\* from there, maybe the one at dispute_automation.py:88-91
Raised(partial, env) ==
    [partial EXCEPT !.counted = @ \cup {"errors"},
                    !.caught  = IF env.handler_raises THEN "run_automation"
                                ELSE "_process_dispute_row"]

\* step 8 calling update_row again when the first call fails
write_back_Retry(cells, updates, log_file_path, env) ==
    LET first == update_row(cells, updates, log_file_path, env.api_ok, env.attach_ok)
        again == update_row(first.cells, updates, log_file_path, env.api_ok, env.attach_ok)
    IN  IF first.result THEN [first EXCEPT !.api_calls = 1] @@ [update_row_calls |-> 1]
        ELSE again @@ [update_row_calls |-> 2]

\* step 8: the one call of update_row
write_back(cells, updates, log_file_path, env) ==
    update_row(cells, updates, log_file_path, env.api_ok, env.attach_ok)
        @@ [update_row_calls |-> 1]

\* steps 5 to 7: the log file, the updates, the rebooking notes, and the calls
\* made since step 4
build_updates(client_reference, final_error_type, has_rows, log_file_path, rebooking_info, events) ==
    LET has_logs == log_file_path
        rebooking == DOMAIN rebooking_info # {} /\ rebooking_info.is_rebooking
    IN  [error_type |-> final_error_type,
         has_logs |-> has_logs,
         log_file |-> log_file_path,
         built |-> IF rebooking
                   THEN _handle_rebooking_scenario(
                            create_status_updates(final_error_type, has_logs),
                            rebooking_info, client_reference, events)
                   ELSE create_status_updates(final_error_type, has_logs),
         calls |-> <<"_determine_error_type">>
                   \o (IF has_rows THEN <<"save_logs_to_file">> ELSE <<>>)
                   \o <<"create_status_updates", "check_rebooking_scenario">>
                   \o (IF rebooking THEN <<"_handle_rebooking_scenario">> ELSE <<>>)]

\* step 4 and the steps after it, given the answers of steps 2 and 3
classify(client_reference, cp_info, logs, save_ok, events) ==
    build_updates(client_reference,
                  _determine_error_type(cp_info, logs.detected_error, logs.logs_df),
                  HasRows(logs.logs_df),
                  HasRows(logs.logs_df) /\ save_ok,
                  check_rebooking_scenario(events),
                  events)

\* steps 2 to 7 of _process_dispute_row for an eligible row: the error type,
\* the log file, the updates, and the calls made.  The queries of an engine
\* whose connection is closed raise in execute.
classify_and_build(client_reference, env, snowflake_open) ==
    classify(client_reference,
             get_comprehensive_booking_info(env.profile),
             get_booking_logs(IF snowflake_open THEN env.warehouse
                              ELSE [ok |-> FALSE, rows |-> <<>>]),
             env.save_ok,
             IF snowflake_open THEN env.events
             ELSE [count_ok |-> FALSE, cancel_ok |-> FALSE, rows |-> <<>>])

----------------------------------------------------------------------------
(* The main variables while a pure function is examined, and the function  *)
(* variables while the engine runs                                         *)

NoLast == [row_id |-> 0]

MainParked ==
    /\ sheet = <<>>
    /\ engine = [alive |-> FALSE]
    /\ pc = "parked"
    /\ dispute_rows = <<>>
    /\ idx = 0
    /\ run = <<>>
    /\ last = NoLast
    /\ runs = 0
    /\ written = <<>>

FnParked ==
    /\ fn_in = <<>>
    /\ fn_out = <<>>
    /\ fn_done = FALSE

----------------------------------------------------------------------------
(* The engine and its runs over a sheet of NumRows rows *)

NumRows == 2

MaxRuns == 2

ClientReferences == <<"CR100", "CR101", "CR102", "CR103", "CR104">>

Cells(client_reference, notes, supplier_comments, status, completion) ==
    [client_reference          |-> client_reference,
     round_1_notes             |-> notes,
     round_1_supplier_comments |-> supplier_comments,
     round_1_status            |-> status,
     round_1_completion        |-> completion,
     attachments               |-> 0]

\* what a row of the sheet can hold before the first run: a dispute in the
\* initial state, one a person has already marked processed, one a person has
\* half edited, and a row that is no dispute
InitialCells(client_reference) ==
    {Cells(client_reference,
           "The booking was marked by supplier as provider error. Please provide logs.",
           "In escalation process", "Escalation", "Need help"),
     Cells(client_reference,
           "The booking was marked as invalid by the supplier, please provide the logs.",
           "Reviewed by ST technical team", "Will not pay", "Ready to submit"),
     Cells(client_reference, "Supplier error, see ticket",
           "in escalation process", "will not pay", "need help"),
     Cells(client_reference, "Paid in full", "", "", "")}

InitialSheets ==
    {q \in SeqsUpTo(UNION {InitialCells(ClientReferences[i]) : i \in 1..NumRows}, NumRows) :
        /\ Len(q) = NumRows
        /\ \A i \in 1..NumRows : q[i].client_reference = ClientReferences[i]}

RunProfiles ==
    {[booking |-> <<>>, cancellation_logs |-> <<>>],
     [booking |-> Booking("confirmed", <<>>), cancellation_logs |-> <<>>]}

RunWarehouses ==
    {[ok |-> FALSE, rows |-> <<>>],
     [ok |-> TRUE, rows |-> <<LogRecord("provider error", "", "", "")>>]}

Event(reason, supplier_order_id) == [reason |-> reason, supplier_order_id |-> supplier_order_id]

\* the cancelled order's id is free text of the supplier: "SO-1", or one that
\* happens to read like a dispute trigger
RunEvents ==
    {[count_ok |-> FALSE, cancel_ok |-> FALSE, rows |-> <<>>],
     [count_ok |-> TRUE, cancel_ok |-> TRUE,
      rows |-> <<Event("booked", "SO-1"), Event("Cancelled by guest", "SO-1"),
                 Event("booked", "SO-2")>>],
     [count_ok |-> TRUE, cancel_ok |-> TRUE,
      rows |-> <<Event("booked", "PROVIDER ERROR 7"),
                 Event("Cancelled by guest", "PROVIDER ERROR 7"),
                 Event("booked", "SO-2")>>]}

\* every service failing to answer, nothing raising
QuietEnv ==
    [profile |-> [booking |-> <<>>, cancellation_logs |-> <<>>],
     warehouse |-> [ok |-> FALSE, rows |-> <<>>],
     events |-> [count_ok |-> FALSE, cancel_ok |-> FALSE, rows |-> <<>>],
     save_ok |-> TRUE, api_ok |-> TRUE, attach_ok |-> TRUE,
     fault |-> "none", handler_raises |-> FALSE]

\* a booking with one log record, every call succeeding
LoggedEnv ==
    [QuietEnv EXCEPT !.profile = [booking |-> Booking("confirmed", <<>>),
                                  cancellation_logs |-> <<>>],
                     !.warehouse = [ok |-> TRUE,
                                    rows |-> <<LogRecord("provider error", "", "", "")>>]]

\* the answers of the services, with the log file and the attachment
\* succeeding or not where there is one
AnswerEnvs ==
    {e \in [profile : RunProfiles, warehouse : RunWarehouses, events : RunEvents,
            save_ok : BOOLEAN, api_ok : {TRUE}, attach_ok : BOOLEAN,
            fault : {"none"}, handler_raises : {FALSE}] :
        /\ ~(e.warehouse.ok /\ Len(e.warehouse.rows) > 0) => e.save_ok
        /\ ~e.save_ok => e.attach_ok}

\* the failures: the update request refused, and each raising call, with the
\* row's own handler raising too or not
FailureEnvs ==
    {[QuietEnv EXCEPT !.api_ok = FALSE], [LoggedEnv EXCEPT !.api_ok = FALSE]}
        \cup {[LoggedEnv EXCEPT !.fault = f, !.handler_raises = h] :
                 f \in Faults \ {"none"}, h \in BOOLEAN}

Environments == AnswerEnvs \cup FailureEnvs

\* what a call of _process_dispute_row has done so far, at its first line
Started(row, cells) ==
    [row_id |-> row.row_id, eligible |-> FALSE, reason |-> "",
     calls |-> <<>>, error_type |-> None, has_logs |-> FALSE, log_file |-> FALSE,
     built |-> <<>>, update_row_calls |-> 0, success |-> FALSE,
     cells |-> cells, counted |-> {}, caught |-> "", returned |-> FALSE]

\* what the call has done once update_row has answered: the logging and the
\* counting of dispute_automation.py:156-173, and the handler of lines 175-179
after_update_row(before_write, written_back, env) ==
    LET after_write ==
            [before_write EXCEPT
                !.calls = @ \o [i \in 1..written_back.update_row_calls |-> "update_row"],
                !.update_row_calls = written_back.update_row_calls,
                !.success = written_back.result,
                !.cells = written_back.cells]
    IN  IF ~written_back.result
        THEN [after_write EXCEPT !.calls = @ \o <<"log_row_processing">>,
                                 !.counted = {"errors"}]
        ELSE IF env.fault = "log_row_processing"
             THEN Raised([after_write EXCEPT !.calls = @ \o <<"log_row_processing">>], env)
        ELSE IF env.fault = "audit"
             THEN Raised([after_write EXCEPT !.calls = @ \o <<"log_row_processing", "audit">>,
                                             !.counted = {"updated", "processed"}], env)
        ELSE [after_write EXCEPT !.calls = @ \o <<"log_row_processing", "audit">>,
                                 !.counted = {"updated", "processed"},
                                 !.returned = TRUE]

\* step 8 and what follows it, given what steps 2 to 7 have prepared
update_and_count(fetched, prepared, cells, env) ==
    after_update_row([fetched EXCEPT !.calls = @ \o prepared.calls,
                                     !.error_type = prepared.error_type,
                                     !.has_logs = prepared.has_logs,
                                     !.log_file = prepared.log_file,
                                     !.built = prepared.built],
                     write_back(cells, prepared.built, prepared.log_file, env),
                     env)

\* steps 2 to 8 and the bookkeeping after them
process_eligible(start, row, cells, env, snowflake_open) ==
    IF env.fault = "get_booking_logs"
    THEN Raised([start EXCEPT !.calls = @ \o <<"get_comprehensive_booking_info",
                                               "get_booking_logs">>], env)
    ELSE update_and_count([start EXCEPT !.calls = @ \o <<"get_comprehensive_booking_info",
                                                         "get_booking_logs">>],
                          classify_and_build(row.client_reference, env, snowflake_open),
                          cells, env)

\* the gate's verdict counted but not returned on: the pipeline runs all the same
_process_dispute_row_NoEarlyReturn(row, cells, env, snowflake_open) ==
    LET gate == validate_row_eligibility(row)
        start == [Started(row, cells) EXCEPT !.eligible = gate[1], !.reason = gate[2],
                                             !.calls = <<"validate_row_eligibility">>]
        done == process_eligible(start, row, cells, env, snowflake_open)
    IN  IF ~gate[1] THEN [done EXCEPT !.counted = @ \cup {"skipped"}] ELSE done

_process_dispute_row(row, cells, env, snowflake_open) ==
    LET gate == validate_row_eligibility(row)
        start == [Started(row, cells) EXCEPT !.eligible = gate[1], !.reason = gate[2],
                                             !.calls = <<"validate_row_eligibility">>]
    IN  IF ~gate[1]
        THEN [start EXCEPT !.counted = {"skipped"}]
        ELSE process_eligible(start, row, cells, env, snowflake_open)

\* what _process_dispute_row can do with a row, over the environments
RowOutcomes(row, cells, snowflake_open) ==
    {_process_dispute_row(row, cells, env, snowflake_open) :
        env \in (IF validate_row_eligibility(row)[1] THEN Environments ELSE {QuietEnv})}

\* RowOutcomes of the rows as they are before the first run, computed once
InitialRowOutcomes ==
    [r \in 1..NumRows |->
        [cells \in InitialCells(ClientReferences[r]) |->
            [snowflake_open \in BOOLEAN |->
                RowOutcomes(RowDict(r, cells), cells, snowflake_open)]]]

Outcomes(row, cells, snowflake_open) ==
    IF row = RowDict(row.row_id, cells) /\ cells \in DOMAIN InitialRowOutcomes[row.row_id]
    THEN InitialRowOutcomes[row.row_id][cells][snowflake_open]
    ELSE RowOutcomes(row, cells, snowflake_open)

\* the notes a row can hold: those of the rows before the first run and those
\* a write-back leaves
KnownNotes ==
    {cells.round_1_notes : cells \in UNION {InitialCells(ClientReferences[r]) : r \in 1..NumRows}}
        \cup UNION {{done.cells.round_1_notes :
                        done \in UNION {InitialRowOutcomes[r][cells][snowflake_open] :
                                           cells \in InitialCells(ClientReferences[r]),
                                           snowflake_open \in BOOLEAN}} :
                    r \in 1..NumRows}

\* _is_dispute_row(cell.value.lower()) of the known notes, computed once
KnownDisputeNotes == [notes \in KnownNotes |-> _is_dispute_row(lower(notes))]

\* notes_text = cell.value.lower(); self._is_dispute_row(notes_text)
is_dispute_notes(notes) ==
    IF notes \in DOMAIN KnownDisputeNotes THEN KnownDisputeNotes[notes]
    ELSE _is_dispute_row(lower(notes))

\* for row in self.sheet.rows, from row i on
RECURSIVE get_dispute_rows_from(_, _)
get_dispute_rows_from(rows, i) ==
    IF i > Len(rows) THEN <<>>
    ELSE (IF is_dispute_notes(rows[i].round_1_notes) /\ rows[i].client_reference # ""
          THEN <<RowDict(i, rows[i])>> ELSE <<>>)
         \o get_dispute_rows_from(rows, i + 1)

get_dispute_rows(rows) == get_dispute_rows_from(rows, 1)

FreshStats == [total_rows |-> 0, processed |-> 0, errors |-> 0, skipped |-> 0, updated |-> 0]

\* DisputeAutomationEngine(): the statistics at zero, the connection open, no
\* run_automation call made yet
FreshEngine == [alive |-> TRUE, processing_stats |-> FreshStats, snowflake_open |-> TRUE,
                run_calls |-> 0]

NoRun(cells) == [attempts |-> 0, update_row_calls |-> 0, counted |-> {}, caught |-> "",
                 success |-> FALSE, built |-> <<>>, log_file |-> FALSE, before |-> cells]

Init ==
    /\ sheet \in InitialSheets
    /\ engine = FreshEngine
    /\ pc = "idle"
    /\ dispute_rows = <<>>
    /\ idx = 0
    /\ run = [r \in 1..NumRows |-> NoRun(sheet[r])]
    /\ last = NoLast
    /\ runs = 0
    /\ written = [r \in 1..NumRows |-> 0]
    /\ FnParked

\* a new process: DisputeAutomationEngine.__init__
Construct ==
    /\ pc \in {"done", "failed"}
    /\ runs < MaxRuns
    /\ engine' = FreshEngine
    /\ pc' = "idle"
    /\ dispute_rows' = <<>>
    /\ idx' = 0
    /\ last' = NoLast
    /\ UNCHANGED <<sheet, run, runs, written, fn_vars>>

\* _cleanup_connections
_cleanup_connections(e) == [e EXCEPT !.snowflake_open = FALSE]

\* run_automation up to the loop: the rows are listed (list_ok) or
\* get_dispute_rows raises; with no rows the summary is returned at once
RunStart ==
    /\ pc \in {"idle", "done", "failed"}
    /\ runs < MaxRuns
    /\ runs' = runs + 1
    /\ run' = [r \in 1..NumRows |-> NoRun(sheet[r])]
    /\ last' = NoLast
    /\ idx' = 0
    /\ \E list_ok \in BOOLEAN :
         LET rows == get_dispute_rows(sheet)
             called == [engine EXCEPT !.run_calls = @ + 1]
         IN  IF ~list_ok
             THEN /\ dispute_rows' = <<>>
                  /\ engine' = _cleanup_connections(called)
                  /\ pc' = "failed"
             ELSE /\ dispute_rows' = rows
                  /\ IF rows = <<>>
                     THEN /\ engine' = _cleanup_connections(
                                           [called EXCEPT !.processing_stats.total_rows = 0])
                          /\ pc' = "done"
                     ELSE /\ engine' = [called EXCEPT !.processing_stats.total_rows = Len(rows)]
                          /\ pc' = "running"
    /\ UNCHANGED <<sheet, written, fn_vars>>

\* the loop stopping at the first row whose processing raised
ProcessNext_AbortOnError ==
    /\ pc = "running"
    /\ idx < Len(dispute_rows)
    /\ LET row == dispute_rows[idx + 1]
       IN  \E done \in Outcomes(row, sheet[row.row_id], engine.snowflake_open) :
                 /\ sheet' = [sheet EXCEPT ![row.row_id] = done.cells]
                 /\ engine' = [engine EXCEPT
                                  !.processing_stats = count(@, done.counted)]
                 /\ run' = [run EXCEPT ![row.row_id] =
                               [@ EXCEPT !.attempts = @ + 1,
                                         !.update_row_calls = @ + done.update_row_calls,
                                         !.counted = @ \cup done.counted,
                                         !.caught = done.caught,
                                         !.success = done.success,
                                         !.built = done.built,
                                         !.log_file = done.log_file]]
                 /\ written' = [written EXCEPT ![row.row_id] = @ + (IF done.success THEN 1 ELSE 0)]
                 /\ last' = done
                 /\ idx' = IF done.caught # "" THEN Len(dispute_rows) ELSE idx + 1
    /\ UNCHANGED <<pc, dispute_rows, runs, fn_vars>>

\* one turn of the loop of run_automation: _process_dispute_row on the next
\* row, with the handler of run_automation around it
ProcessNext ==
    /\ pc = "running"
    /\ idx < Len(dispute_rows)
    /\ LET row == dispute_rows[idx + 1]
       IN  \E done \in Outcomes(row, sheet[row.row_id], engine.snowflake_open) :
                 /\ sheet' = [sheet EXCEPT ![row.row_id] = done.cells]
                 /\ engine' = [engine EXCEPT
                                  !.processing_stats = count(@, done.counted)]
                 /\ run' = [run EXCEPT ![row.row_id] =
                               [@ EXCEPT !.attempts = @ + 1,
                                         !.update_row_calls = @ + done.update_row_calls,
                                         !.counted = @ \cup done.counted,
                                         !.caught = done.caught,
                                         !.success = done.success,
                                         !.built = done.built,
                                         !.log_file = done.log_file]]
                 /\ written' = [written EXCEPT ![row.row_id] = @ + (IF done.success THEN 1 ELSE 0)]
                 /\ last' = done
                 /\ idx' = idx + 1
    /\ UNCHANGED <<pc, dispute_rows, runs, fn_vars>>

\* run_automation after the loop: the summary, and the cleanup of `finally`
RunFinish ==
    /\ pc = "running"
    /\ idx = Len(dispute_rows)
    /\ pc' = "done"
    /\ engine' = _cleanup_connections(engine)
    /\ UNCHANGED <<sheet, dispute_rows, idx, run, last, runs, written, fn_vars>>

Next == Construct \/ RunStart \/ ProcessNext \/ RunFinish

Spec == Init /\ [][Next]_vars

\* a run whose loop is over goes on to return
SpecFair == Spec /\ WF_vars(RunFinish)

Stats == engine.processing_stats

Rows == 1..NumRows

\* the row is in the list of the current run
Listed(r) == \E i \in 1..Len(dispute_rows) : dispute_rows[i].row_id = r

\* the step is the loop's turn on row r
Processing(r) ==
    /\ pc = "running"
    /\ idx < Len(dispute_rows)
    /\ idx' = idx + 1
    /\ dispute_rows[idx + 1].row_id = r

\* C1: a row whose write-back has succeeded is written at most once over all
\* runs: a later run does not list it, or skips it with "Already processed"
\* without calling update_row and without touching the sheet
C1_WrittenAtMostOnce ==
    /\ [](\A r \in Rows : written[r] <= 1)
    /\ [][\A r \in Rows :
            written[r] >= 1 /\ Processing(r) =>
                /\ ~last'.eligible
                /\ last'.reason = "Already processed"
                /\ last'.update_row_calls = 0
                /\ written' = written
                /\ sheet' = sheet]_vars

\* a second run is over; it skipped a row the first run wrote, and did not
\* list another the first run wrote
C1_Witness ==
    /\ runs = 2
    /\ pc = "done"
    /\ \E r \in Rows :
         /\ written[r] = 1
         /\ last.row_id = r
         /\ last.reason = "Already processed"
         /\ last.update_row_calls = 0
    /\ \E r \in Rows : written[r] = 1 /\ ~Listed(r) /\ run[r].attempts = 0

\* C2: when run_automation has finished on a freshly constructed engine, every
\* listed row is counted in exactly one of updated, skipped and errors, so
\* total_rows = updated + skipped + errors and processed = updated
C2_ExactCounts ==
    pc = "done" /\ engine.run_calls = 1 =>
        /\ \A r \in Rows :
             Listed(r) => Cardinality(run[r].counted \cap {"updated", "skipped", "errors"}) = 1
        /\ Stats.total_rows = Stats.updated + Stats.skipped + Stats.errors
        /\ Stats.processed = Stats.updated

\* C3: a row counted as updated holds the four values built for it and, when
\* a log file was produced, one more attachment; a row counted as skipped or
\* as an error is as it was when the run began
C3_NoPartialWrites ==
    \A r \in Rows :
        /\ "updated" \in run[r].counted =>
             /\ \A c \in DOMAIN run[r].built : sheet[r][c] = run[r].built[c]
             /\ DOMAIN run[r].built = WorkflowCells \cup {"round_1_notes"}
             /\ run[r].log_file => sheet[r].attachments = run[r].before.attachments + 1
        /\ run[r].counted \cap {"skipped", "errors"} # {} => sheet[r] = run[r].before

\* C4: every listed row is attempted exactly once, in the order of the list,
\* one call of _process_dispute_row at a time; an exception from a row is
\* counted in errors and the loop goes on; the loop always has a next turn to
\* take until the last row is done, and then the run ends
C4_EveryRowOnceInOrder ==
    /\ [](\A r \in Rows : run[r].attempts <= 1)
    /\ [](pc = "done" => \A r \in Rows : run[r].attempts = (IF Listed(r) THEN 1 ELSE 0))
    /\ [][pc = "running" /\ idx' # idx =>
            /\ idx' = idx + 1
            /\ last'.row_id = dispute_rows[idx'].row_id
            /\ run'[last'.row_id].attempts = run[last'.row_id].attempts + 1
            /\ \A r \in Rows \ {last'.row_id} : run'[r] = run[r] /\ sheet'[r] = sheet[r]
            /\ last'.caught # "" =>
                 /\ Stats'.errors = Stats.errors + 1
                 /\ pc' = "running"]_vars
    /\ [](pc = "running" /\ idx < Len(dispute_rows) =>
            Outcomes(dispute_rows[idx + 1], sheet[dispute_rows[idx + 1].row_id],
                     engine.snowflake_open) # {})
    /\ (pc = "running" /\ idx = Len(dispute_rows) ~> pc = "done")

\* the first row's processing raised, out of _process_dispute_row itself, the
\* second row was processed all the same, and the run has ended
C4_Witness ==
    /\ pc = "done"
    /\ Len(dispute_rows) >= 2
    /\ run[dispute_rows[1].row_id].caught = "run_automation"
    /\ run[dispute_rows[2].row_id].attempts = 1
    /\ run[dispute_rows[2].row_id].counted = {"updated", "processed"}

\* C5: on a row the gate rejects, _process_dispute_row returns False having
\* counted the row as skipped and nothing else, having called neither the
\* profile service nor the warehouse nor update_row, the sheet untouched
C5_RejectedRowSkipped ==
    [][\A r \in Rows :
         Processing(r) /\ ~last'.eligible =>
             /\ last'.calls = <<"validate_row_eligibility">>
             /\ last'.update_row_calls = 0
             /\ ~last'.returned
             /\ last'.caught = ""
             /\ Stats' = [Stats EXCEPT !.skipped = @ + 1]
             /\ written' = written
             /\ sheet' = sheet]_vars

\* a row in the processed triple has just been skipped
C5_Witness ==
    /\ last.row_id # 0
    /\ ~last.eligible
    /\ last.reason = "Already processed"
    /\ last.counted = {"skipped"}
    /\ Stats.skipped >= 1

\* the calls of one _process_dispute_row before and after position i
CallsBefore(i) == {last.calls[j] : j \in 1..(i - 1)}
CallsAfter(i) == {last.calls[j] : j \in (i + 1)..Len(last.calls)}

\* C9: in one run update_row is called at most once for a row, after the
\* error type, the log file and the rebooking check, with only logging after
\* it; and a row of the sheet changes at most once in a run
C9_SingleWriteBackLast ==
    /\ [](\A r \in Rows : run[r].update_row_calls <= 1)
    /\ [](last.row_id # 0 =>
            \A i \in 1..Len(last.calls) :
                last.calls[i] = "update_row" =>
                    /\ {"_determine_error_type", "create_status_updates",
                        "check_rebooking_scenario"} \subseteq CallsBefore(i)
                    /\ CallsAfter(i) \subseteq {"log_row_processing", "audit"})
    /\ [][\A r \in Rows :
            sheet'[r] # sheet[r] =>
                /\ Processing(r)
                /\ sheet[r] = run[r].before
                /\ run[r].update_row_calls = 0
                /\ run'[r].update_row_calls = 1]_vars

\* a row with logs and a rebooking has been written back by the one call
C9_Witness ==
    /\ last.row_id # 0
    /\ last.update_row_calls = 1
    /\ last.success
    /\ sheet[last.row_id] # run[last.row_id].before
    /\ {"save_logs_to_file", "_handle_rebooking_scenario"} \subseteq CallsBefore(Len(last.calls) - 1)

\* the turn of the loop that is due: the row and what is in its cells
NextRow == dispute_rows[idx + 1]

\* _cleanup_connections has run at every exit of run_automation (the failed
\* listing, the empty list, the end of the loop), and no turn of the loop
\* opens or closes the connection
ClosedAtEveryExit ==
    /\ [](pc \in {"done", "failed"} => ~engine.snowflake_open)
    /\ [][pc = "running" /\ pc' = "running" =>
            engine'.snowflake_open = engine.snowflake_open]_vars

\* C28: the connection is closed at every exit of run_automation and at no
\* other moment of a run, and a row processed by any call on the engine, a
\* later run_automation included, can get whatever the warehouse's records
\* give it: what it can get is what it could get on an open connection
C28_ClosedOnceStillServing ==
    /\ ClosedAtEveryExit
    /\ [](pc = "running" /\ idx < Len(dispute_rows) =>
            Outcomes(NextRow, sheet[NextRow.row_id], engine.snowflake_open)
                = Outcomes(NextRow, sheet[NextRow.row_id], TRUE))

\* C29: after any call of run_automation on an engine, the statistics are
\* those of that call: total_rows = updated + skipped + errors, and each
\* counter is the number of rows of that call counted so
C29_StatsOfLatestCall ==
    pc = "done" =>
        /\ Stats.total_rows = Stats.updated + Stats.skipped + Stats.errors
        /\ \A k \in {"updated", "skipped", "errors", "processed"} :
             Stats[k] = Cardinality({r \in Rows : k \in run[r].counted})

----------------------------------------------------------------------------
(* The eligibility gate on its own: every combination of the three         *)
(* workflow cells, each absent, empty, in either triple (as configured or  *)
(* in another letter case) or holding something else                       *)

GateFields == {"supplier_comments", "status", "completion"}

GateValues(field) ==
    {STATUS_UPDATES[field \o "_from"], upper(STATUS_UPDATES[field \o "_from"]),
     STATUS_UPDATES[field \o "_to"], upper(STATUS_UPDATES[field \o "_to"]),
     "", "on hold"}

GateInit ==
    /\ MainParked
    /\ fn_in \in UNION { [present -> UNION {GateValues(f) : f \in GateFields}]
                         : present \in SUBSET GateFields }
    /\ \A f \in DOMAIN fn_in : fn_in[f] \in GateValues(f)
    /\ fn_out = <<>>
    /\ fn_done = FALSE

GateApply ==
    /\ ~fn_done
    /\ fn_out' = validate_row_eligibility(fn_in)
    /\ fn_done' = TRUE
    /\ UNCHANGED <<fn_in, main_vars>>

GateNext == GateApply

SpecGate == GateInit /\ [][GateNext]_vars

\* the three cells equal a triple, letter case aside (an absent cell reads as "")
CellsEqual(row_data, sc, st, co) ==
    /\ upper(Get(row_data, "supplier_comments", "")) = upper(sc)
    /\ upper(Get(row_data, "status", "")) = upper(st)
    /\ upper(Get(row_data, "completion", "")) = upper(co)

InInitialTriple(row_data) ==
    CellsEqual(row_data, "in escalation process", "escalation", "need help")

InProcessedTriple(row_data) ==
    CellsEqual(row_data, "reviewed by ST technical team", "will not pay", "ready to submit")

(* C6: the gate answers eligible exactly for the rows whose three cells    *)
(* are, letter case aside, the expected-initial triple; for every other    *)
(* combination (absent and empty cells, mixes of the two triples) it       *)
(* answers not eligible, and applying it changes nothing but its result.   *)
C6_EligibleIffInitial ==
    /\ [](fn_done => /\ fn_out[1] = InInitialTriple(fn_in)
                     /\ fn_out[1] \in BOOLEAN
                     /\ (~fn_out[1] => fn_out[2] \in {"Already processed",
                                                      "Not in expected initial state"}))
    /\ [][GateApply => UNCHANGED <<fn_in, main_vars>>]_vars

C6_Witness ==
    /\ fn_done
    /\ fn_out[1] = FALSE
    /\ DOMAIN fn_in = {"status", "completion"}
    /\ fn_in.status = "ESCALATION"
    /\ fn_in.completion = "ready to submit"

(* C7: a row whose three cells are, letter case aside, the                 *)
(* already-processed triple is not eligible, with reason                   *)
(* "Already processed".                                                    *)
C7_ProcessedIsSkipped ==
    (fn_done /\ InProcessedTriple(fn_in)) => fn_out = <<FALSE, "Already processed">>

C7_Witness ==
    /\ fn_done
    /\ InProcessedTriple(fn_in)
    /\ fn_in.status = "WILL NOT PAY"
    /\ fn_out = <<FALSE, "Already processed">>

(* C8, as stated: every row that is not in the initial-state triple is     *)
(* not eligible with reason "Not in expected initial state".               *)
C8_Original ==
    (fn_done /\ ~InInitialTriple(fn_in))
        => fn_out = <<FALSE, "Not in expected initial state">>

(* C8, amended: every row that is neither in the initial-state triple nor  *)
(* in the already-processed triple is not eligible with reason             *)
(* "Not in expected initial state"; a row in the already-processed triple  *)
(* gets the reason "Already processed" instead.                            *)
C8_NotInitialReason ==
    /\ (fn_done /\ ~InInitialTriple(fn_in) /\ ~InProcessedTriple(fn_in))
           => fn_out = <<FALSE, "Not in expected initial state">>
    /\ (fn_done /\ InProcessedTriple(fn_in)) => fn_out[2] # "Not in expected initial state"

C8_Witness ==
    /\ fn_done
    /\ ~InInitialTriple(fn_in)
    /\ ~InProcessedTriple(fn_in)
    /\ DOMAIN fn_in = GateFields
    /\ fn_in.supplier_comments = "in escalation process"
    /\ fn_in.status = "will not pay"
    /\ fn_out = <<FALSE, "Not in expected initial state">>

----------------------------------------------------------------------------
(* The classification on its own: every frame of at most MaxLogRows log    *)
(* records, or a failed query, with every profile answer                   *)

MaxLogRows == 2

LogRecords ==
    {LogRecord("provider error", "", "", ""),
     LogRecord("CONNECTION_ERROR", "", "", ""),
     LogRecord("supplier_confirmation_error", "failed", "", ""),
     LogRecord("upstream said CONNECTION_ERROR after SUPPLIER_CONFIRMATION_ERROR", "", "", ""),
     LogRecord("Foo ERROR occurred", "", "", ""),
     LogRecord("ERROR", "", "", ""),
     LogRecord("ERROR", "", "Bar ERROR", ""),
     LogRecord("ERROR: first retry ERRORS seen", "", "", ""),
     LogRecord("", "confirmed", "TIMEOUT_ERROR from supplier", ""),
     LogRecord("unknown error", "", "BOOKING_FAILED", ""),
     LogRecord("", "confirmed", "", "")}

WarehouseAnswers ==
    {[ok |-> FALSE, rows |-> <<>>]} \cup {[ok |-> TRUE, rows |-> q] : q \in SeqsUpTo(LogRecords, MaxLogRows)}

ProfileAnswers ==
    {[booking |-> <<>>, cancellation_logs |-> <<>>],
     [booking |-> Booking("confirmed", <<>>), cancellation_logs |-> <<>>],
     [booking |-> Booking("failed", <<>>), cancellation_logs |-> <<>>],
     [booking |-> Booking("confirmed", <<ProfileError("Connection lost", "")>>),
      cancellation_logs |-> <<>>],
     [booking |-> Booking("Failed", <<ProfileError("connection reset by peer", "E42")>>),
      cancellation_logs |-> <<>>],
     [booking |-> Booking("confirmed", <<ProfileError("supplier confirmation missing", ""),
                                         ProfileError("gave up", "timeout_error")>>),
      cancellation_logs |-> <<>>],
     [booking |-> Booking("confirmed", <<ProfileError("provider timeout", "")>>),
      cancellation_logs |-> <<[message |-> "cancel: booking_failed"]>>]}

ClassifyInit ==
    /\ MainParked
    /\ fn_in \in [warehouse : WarehouseAnswers, profile : ProfileAnswers]
    /\ fn_out = <<>>
    /\ fn_done = FALSE

\* steps 2 to 4 of _process_dispute_row
ClassifyApply ==
    /\ ~fn_done
    /\ LET cp_info == get_comprehensive_booking_info(fn_in.profile)
           logs    == get_booking_logs(fn_in.warehouse)
       IN  fn_out' = [cp_info |-> cp_info,
                      logs_df |-> logs.logs_df,
                      detected_error |-> logs.detected_error,
                      final_error_type |->
                          _determine_error_type(cp_info, logs.detected_error, logs.logs_df)]
    /\ fn_done' = TRUE
    /\ UNCHANGED <<fn_in, main_vars>>

ClassifyNext == ClassifyApply

SpecClassify == ClassifyInit /\ [][ClassifyNext]_vars

\* some fetched record's reason contains the pattern, letter case aside
ReasonHas(rows, pattern) ==
    \E i \in 1..Len(rows) : Contains(upper(rows[i].reason), pattern)

\* the profile answer carries a signal of its own
ProfileSignals(cp_info) == Truthy(cp_info.detected_error_type) \/ ~cp_info.is_valid

\* the upper-cased text of a column of a fetched record
UpperText(rows, i, c) == upper(rows[i][text_columns[c]])

\* no text of any fetched record contains a fixed pattern
NoFixedPattern(rows) ==
    \A i \in 1..Len(rows) : \A c \in 1..Len(text_columns) : \A k \in 1..Len(ERROR_PATTERNS) :
        ~Contains(UpperText(rows, i, c), ERROR_PATTERNS[k])

\* the column holds the token ERROR in some record
ColumnHasError(rows, c) == \E i \in 1..Len(rows) : Contains(UpperText(rows, i, c), "ERROR")

\* the first column, in scanning order, that holds the token ERROR
ErrorColumn(rows) ==
    CHOOSE c \in 1..Len(text_columns) :
        ColumnHasError(rows, c) /\ \A d \in 1..(c - 1) : ~ColumnHasError(rows, d)

\* the occurrences of ERROR with a word before them in that column: the
\* record, and the position of the word that holds ERROR
PrecededErrors(rows, c) ==
    {o \in UNION {{i} \X (2..Len(split(UpperText(rows, i, c)))) : i \in 1..Len(rows)} :
        Contains(split(UpperText(rows, o[1], c))[o[2]], "ERROR")}

\* the first of them, by record and then by position
FirstPrecededError(rows, c) ==
    CHOOSE o \in PrecededErrors(rows, c) :
        \A p \in PrecededErrors(rows, c) : o[1] < p[1] \/ (o[1] = p[1] /\ o[2] <= p[2])

\* the word before that occurrence
WordBefore(rows, c, o) == split(UpperText(rows, o[1], c))[o[2] - 1]

\* C19: for fetched log text that holds no fixed pattern but holds the
\* token ERROR, the classifier returns the upper-cased word immediately
\* before ERROR followed by "_ERROR", taken in the first column that holds
\* ERROR from the first occurrence that has a word before it ("Foo ERROR
\* occurred" yields FOO_ERROR); when no occurrence there has a word before
\* it, the classifier returns GENERAL_ERROR
C19_HeuristicFallback ==
    fn_done /\ fn_in.warehouse.ok /\ Len(fn_in.warehouse.rows) > 0
            /\ NoFixedPattern(fn_in.warehouse.rows)
            /\ (\E c \in 1..Len(text_columns) : ColumnHasError(fn_in.warehouse.rows, c)) =>
        LET rows == fn_in.warehouse.rows
            c    == ErrorColumn(rows)
        IN  /\ PrecededErrors(rows, c) # {} =>
                   fn_out.detected_error =
                       WordBefore(rows, c, FirstPrecededError(rows, c)) \o "_ERROR"
            /\ PrecededErrors(rows, c) = {} => fn_out.detected_error = "GENERAL_ERROR"
            /\ rows = <<LogRecord("Foo ERROR occurred", "", "", "")>> =>
                   fn_out.detected_error = "FOO_ERROR"
            /\ rows = <<LogRecord("ERROR", "", "", "")>> =>
                   fn_out.detected_error = "GENERAL_ERROR"

\* a record with a bare ERROR, then "Foo ERROR occurred": FOO_ERROR
C19_Witness ==
    /\ fn_done
    /\ fn_in.warehouse.ok
    /\ fn_in.warehouse.rows = <<LogRecord("ERROR", "", "", ""),
                                LogRecord("Foo ERROR occurred", "", "", "")>>
    /\ fn_out.detected_error = "FOO_ERROR"

\* the fixed patterns, as a set
FixedPatterns == {ERROR_PATTERNS[k] : k \in 1..Len(ERROR_PATTERNS)}

\* C23: when some field of some fetched record holds a fixed pattern, the
\* classifier returns a fixed pattern, also when a field scanned earlier
\* holds only the token ERROR; the heuristic values are returned only when
\* no field of any record holds a fixed pattern
C23_FixedPatternBeforeFallback ==
    fn_done /\ fn_in.warehouse.ok /\ Len(fn_in.warehouse.rows) > 0
            /\ ~NoFixedPattern(fn_in.warehouse.rows) =>
        /\ fn_out.detected_error \in FixedPatterns
        /\ \E i \in 1..Len(fn_in.warehouse.rows) : \E c \in 1..Len(text_columns) :
               Contains(UpperText(fn_in.warehouse.rows, i, c), fn_out.detected_error)

\* the text holds some fixed pattern
HasFixedPattern(text) == \E k \in 1..Len(ERROR_PATTERNS) : Contains(text, ERROR_PATTERNS[k])

\* the first column, in scanning order, that holds a fixed pattern in some
\* record, and the first record that holds one in that column
PatternColumn(rows) ==
    CHOOSE c \in 1..Len(text_columns) :
        /\ \E i \in 1..Len(rows) : HasFixedPattern(UpperText(rows, i, c))
        /\ \A d \in 1..(c - 1) : \A i \in 1..Len(rows) : ~HasFixedPattern(UpperText(rows, i, d))

PatternRow(rows, c) ==
    CHOOSE i \in 1..Len(rows) :
        /\ HasFixedPattern(UpperText(rows, i, c))
        /\ \A j \in 1..(i - 1) : ~HasFixedPattern(UpperText(rows, j, c))

\* C24: the columns are scanned in the order reason, detailed_status,
\* response, request, and in the first column that holds a fixed pattern
\* the classifier returns a pattern of the first record that holds one,
\* also when a later record of the column holds a pattern listed earlier
C24_FirstMatchingRowWins ==
    fn_done /\ fn_in.warehouse.ok /\ Len(fn_in.warehouse.rows) > 0
            /\ ~NoFixedPattern(fn_in.warehouse.rows) =>
        LET rows == fn_in.warehouse.rows
            c    == PatternColumn(rows)
        IN  /\ fn_out.detected_error \in FixedPatterns
            /\ Contains(UpperText(rows, PatternRow(rows, c), c), fn_out.detected_error)

\* the signal of one error entry of the profile: a fixed pattern in its
\* message or code, else a composite keyword of its message
EntrySignal(error) ==
    LET error_message == upper(Get(error, "message", ""))
        error_code    == upper(Get(error, "code", ""))
    IN  IF pattern_in_error_from(error_message, error_code, 1) # None
        THEN pattern_in_error_from(error_message, error_code, 1)
        ELSE composite_keyword(error_message)

\* the first error entry of the booking that gives a signal
FirstSignalEntry(booking) ==
    CHOOSE e \in 1..Len(booking.errors) :
        /\ EntrySignal(booking.errors[e]) # None
        /\ \A d \in 1..(e - 1) : EntrySignal(booking.errors[d]) = None

\* the booking exists and its status is none of FAILED, CANCELLED, ERROR
GoodStatusBooking(profile) ==
    /\ DOMAIN profile.booking # {}
    /\ upper(profile.booking.status) \notin BAD_STATUSES

\* C25: in the profile-derived classification the first matching signal
\* wins: once an error entry has given a classification, by a fixed pattern
\* or by a composite keyword, no later error entry and no cancellation-log
\* message changes it
C25_FirstProfileSignalWins ==
    fn_done /\ GoodStatusBooking(fn_in.profile)
            /\ (\E e \in 1..Len(fn_in.profile.booking.errors) :
                    EntrySignal(fn_in.profile.booking.errors[e]) # None) =>
        fn_out.cp_info.detected_error_type =
            EntrySignal(fn_in.profile.booking.errors[FirstSignalEntry(fn_in.profile.booking)])

\* C26: a booking status of FAILED, CANCELLED or ERROR gives "<STATUS>_STATUS"
\* only when no error entry gives a signal: with an error message that holds
\* a fixed pattern or a composite keyword (status FAILED, message containing
\* CONNECTION) the profile-derived classification is the more specific value
C26_SpecificBeforeStatus ==
    fn_done /\ DOMAIN fn_in.profile.booking # {}
            /\ upper(fn_in.profile.booking.status) \in BAD_STATUSES
            /\ fn_in.profile.cancellation_logs = <<>> =>
        IF \E e \in 1..Len(fn_in.profile.booking.errors) :
               EntrySignal(fn_in.profile.booking.errors[e]) # None
        THEN fn_out.cp_info.detected_error_type \in
                 {EntrySignal(fn_in.profile.booking.errors[e]) :
                      e \in 1..Len(fn_in.profile.booking.errors)} \ {None}
        ELSE fn_out.cp_info.detected_error_type = upper(fn_in.profile.booking.status) \o "_STATUS"

(* C10, as stated: whenever the warehouse logs yield a classification the  *)
(* final classification is the log-derived one whatever the profile says,  *)
(* and a fetched log record with CONNECTION_ERROR in its reason always     *)
(* yields CONNECTION_ERROR.                                                *)
C10_Original ==
    fn_done =>
        /\ Truthy(fn_out.detected_error) => fn_out.final_error_type = fn_out.detected_error
        /\ (fn_in.warehouse.ok /\ ReasonHas(fn_in.warehouse.rows, "CONNECTION_ERROR"))
               => fn_out.final_error_type = "CONNECTION_ERROR"

(* C10, amended: whenever the warehouse logs yield a classification the    *)
(* final classification is the log-derived one whatever the profile says;  *)
(* a fetched log record with CONNECTION_ERROR in its reason yields         *)
(* CONNECTION_ERROR unless the reason of some fetched record contains      *)
(* SUPPLIER_CONFIRMATION_ERROR, the pattern listed before it, which then   *)
(* is the classification.                                                  *)
C10_LogsBeforeProfile ==
    fn_done =>
        /\ Truthy(fn_out.detected_error) => fn_out.final_error_type = fn_out.detected_error
        /\ (fn_in.warehouse.ok /\ ReasonHas(fn_in.warehouse.rows, "CONNECTION_ERROR"))
               => fn_out.final_error_type =
                      IF ReasonHas(fn_in.warehouse.rows, "SUPPLIER_CONFIRMATION_ERROR")
                      THEN "SUPPLIER_CONFIRMATION_ERROR" ELSE "CONNECTION_ERROR"

C10_Witness ==
    /\ fn_done
    /\ fn_in.warehouse.ok
    /\ ReasonHas(fn_in.warehouse.rows, "CONNECTION_ERROR")
    /\ ~ReasonHas(fn_in.warehouse.rows, "SUPPLIER_CONFIRMATION_ERROR")
    /\ fn_out.cp_info.detected_error_type = "TIMEOUT_ERROR"
    /\ fn_out.final_error_type = "CONNECTION_ERROR"

----------------------------------------------------------------------------
(* One eligible row through _process_dispute_row, over what the profile    *)
(* service, the warehouse and the store can answer                         *)

\* the profile service answering, or not reached: get_booking_details and
\* get_cancellation_logs then return None (customer_profile_integration.py:68-70, 99-101)
RowProfiles ==
    {[reached |-> FALSE, booking |-> <<>>, cancellation_logs |-> <<>>]}
        \cup {[reached |-> TRUE, booking |-> p.booking,
               cancellation_logs |-> p.cancellation_logs] : p \in ProfileAnswers}

RowLogRecords ==
    {LogRecord("provider error", "", "", ""),
     LogRecord("Foo ERROR occurred", "", "", ""),
     LogRecord("", "confirmed", "", "")}

\* the warehouse not reached (the query raises), or answering with rows
RowWarehouses ==
    {[ok |-> FALSE, rows |-> <<>>]}
        \cup {[ok |-> TRUE, rows |-> q] : q \in SeqsUpTo(RowLogRecords, MaxLogRows)}

\* the event histories: the queries failing, one booking, two bookings, a
\* cancellation between two bookings (with the cancellation query failing or
\* not), two cancellations, and a cancellation alone
RowEvents ==
    {[count_ok |-> FALSE, cancel_ok |-> FALSE, rows |-> <<>>],
     [count_ok |-> TRUE, cancel_ok |-> TRUE, rows |-> <<Event("booked", "SO-1")>>],
     [count_ok |-> TRUE, cancel_ok |-> TRUE,
      rows |-> <<Event("booked", "SO-1"), Event("booked again", "SO-2")>>],
     [count_ok |-> TRUE, cancel_ok |-> TRUE,
      rows |-> <<Event("booked", "SO-1"), Event("Cancelled by guest", "SO-1"),
                 Event("booked", "SO-2")>>],
     [count_ok |-> TRUE, cancel_ok |-> FALSE,
      rows |-> <<Event("booked", "SO-1"), Event("Cancelled by guest", "SO-1"),
                 Event("booked", "SO-2")>>],
     [count_ok |-> TRUE, cancel_ok |-> TRUE,
      rows |-> <<Event("booked", "SO-1"), Event("Cancelled by guest", "SO-1"),
                 Event("booked", "SO-2"), Event("CANCEL", "SO-2"),
                 Event("booked", "SO-3")>>],
     [count_ok |-> TRUE, cancel_ok |-> TRUE,
      rows |-> <<Event("cancel requested", "SO-1")>>]}

RowEnvs ==
    [profile : RowProfiles, warehouse : RowWarehouses, events : RowEvents,
     save_ok : BOOLEAN, api_ok : BOOLEAN, attach_ok : {TRUE},
     fault : {"none"}, handler_raises : {FALSE}]

\* the row of scenarios A and B: client reference CR100, in the initial state
ScenarioCells ==
    Cells("CR100", "The booking was marked by supplier as provider error. Please provide logs.",
          "In escalation process", "Escalation", "Need help")

RowInit ==
    /\ MainParked
    /\ fn_in \in [cells : {ScenarioCells}, env : RowEnvs]
    /\ fn_out = <<>>
    /\ fn_done = FALSE

RowApply ==
    /\ ~fn_done
    /\ fn_out' = _process_dispute_row(RowDict(1, fn_in.cells), fn_in.cells, fn_in.env, TRUE)
    /\ fn_done' = TRUE
    /\ UNCHANGED <<fn_in, main_vars>>

RowNext == RowApply

SpecRow == RowInit /\ [][RowNext]_vars

\* neither the warehouse nor the profile service was reached
BothUnreachable == ~fn_in.env.warehouse.ok /\ ~fn_in.env.profile.reached

\* C11: for an eligible row, classification fails, so that the row is not
\* written as resolved, exactly when neither the warehouse nor the profile
\* service is reached; otherwise it completes with a value or with none
C11_FailsIffBothUnreachable ==
    fn_done /\ fn_out.eligible /\ fn_in.env.api_ok =>
        /\ BothUnreachable <=> ~fn_out.success
        /\ BothUnreachable <=>
               (fn_out.cells.round_1_status = fn_in.cells.round_1_status)

\* the profile service gave no signal: not reached, or no booking found
NoProfileSignal == ~fn_in.env.profile.reached \/ DOMAIN fn_in.env.profile.booking = {}

\* the warehouse gave no signal: not reached, or no log row found
NoWarehouseSignal == ~fn_in.env.warehouse.ok \/ Len(fn_in.env.warehouse.rows) = 0

\* what the log rows alone classify to: their detected error, else the
\* generic PROVIDER_ERROR when there are rows, else none
LogsAloneClassification ==
    LET logs == get_booking_logs(fn_in.env.warehouse)
    IN  IF logs.detected_error # None THEN logs.detected_error
        ELSE IF HasRows(logs.logs_df) THEN "PROVIDER_ERROR"
        ELSE None

\* what the profile alone classifies to: its detected error, else
\* BOOKING_INVALID when it is marked invalid, else none
ProfileAloneClassification ==
    LET cp_info == get_comprehensive_booking_info(fn_in.env.profile)
    IN  IF Truthy(cp_info.detected_error_type) THEN cp_info.detected_error_type
        ELSE IF ~cp_info.is_valid THEN "BOOKING_INVALID"
        ELSE None

\* C12: a single source that is not reached or is empty never aborts the row
\* and counts as no signal: without a profile signal the classification is
\* what the logs alone give (PROVIDER_ERROR for logs without a classifiable
\* signal, none for absent logs), without a warehouse signal it is what the
\* profile alone gives
C12_NoSignalFromOneSource ==
    fn_done =>
        /\ fn_out.caught = ""
        /\ NoProfileSignal => fn_out.error_type = LogsAloneClassification
        /\ NoWarehouseSignal => fn_out.error_type = ProfileAloneClassification

\* the notes are the rebooking narrative
IsNarrative(notes) == Contains(notes, "We then immediately booked ")

\* C13: every update that is written back sets supplier comments, status
\* and completion to 'reviewed by ST technical team', 'will not pay' and
\* 'ready to submit', whatever the classification (none included), with or
\* without logs, with or without the rebooking narrative
C13_ProcessedTriple ==
    fn_done /\ fn_out.update_row_calls > 0 =>
        /\ fn_out.built.round_1_supplier_comments = "reviewed by ST technical team"
        /\ fn_out.built.round_1_status = "will not pay"
        /\ fn_out.built.round_1_completion = "ready to submit"
        /\ fn_out.success =>
               /\ fn_out.cells.round_1_supplier_comments = "reviewed by ST technical team"
               /\ fn_out.cells.round_1_status = "will not pay"
               /\ fn_out.cells.round_1_completion = "ready to submit"

\* a row without classification and without logs is written with the narrative
C13_Witness ==
    /\ fn_done
    /\ fn_out.success
    /\ fn_out.error_type = None
    /\ ~fn_out.has_logs
    /\ IsNarrative(fn_out.cells.round_1_notes)
    /\ fn_out.cells.round_1_status = "will not pay"

\* C22: the updates handed to update_row have the four workflow fields as
\* their only keys, and the write leaves the client reference and every
\* other cell of the row as it was
C22_OnlyWorkflowFields ==
    fn_done /\ fn_out.update_row_calls > 0 =>
        /\ DOMAIN fn_out.built \subseteq {"round_1_notes", "round_1_supplier_comments",
                                          "round_1_status", "round_1_completion"}
        /\ fn_out.cells.client_reference = fn_in.cells.client_reference
        /\ \A c \in DOMAIN fn_in.cells \ (DOMAIN fn_out.built \cup {"attachments"}) :
               fn_out.cells[c] = fn_in.cells[c]

\* a row written with the rebooking narrative keeps its client reference
C22_Witness ==
    /\ fn_done
    /\ fn_out.success
    /\ fn_out.update_row_calls = 1
    /\ IsNarrative(fn_out.cells.round_1_notes)
    /\ fn_out.cells.client_reference = "CR100"
    /\ DOMAIN fn_out.built = WorkflowCells

\* the profile gives no error and a valid booking: the booking exists, its
\* status is good, no error entry gives a signal and no cancellation-log
\* message holds a fixed pattern
QuietProfile ==
    /\ fn_in.env.profile.reached
    /\ GoodStatusBooking(fn_in.env.profile)
    /\ \A e \in 1..Len(fn_in.env.profile.booking.errors) :
           EntrySignal(fn_in.env.profile.booking.errors[e]) = None
    /\ \A l \in 1..Len(fn_in.env.profile.cancellation_logs) :
           ~HasFixedPattern(upper(fn_in.env.profile.cancellation_logs[l].message))

\* log records were fetched and none of their fields holds a fixed pattern
\* or the token ERROR
SignalLessLogs ==
    /\ ~NoWarehouseSignal
    /\ NoFixedPattern(fn_in.env.warehouse.rows)
    /\ \A c \in 1..Len(text_columns) : ~ColumnHasError(fn_in.env.warehouse.rows, c)

\* C27: with a profile that gives no error and is valid, log records without
\* a classifiable signal give PROVIDER_ERROR, and no log records give no
\* classification; the row is processed to an outcome all the same: the
\* updates are built and handed to update_row once, nothing is raised, and
\* the row is counted as updated or, when the store refuses, as an error
C27_GenericAndNone ==
    fn_done /\ QuietProfile =>
        /\ SignalLessLogs => fn_out.error_type = "PROVIDER_ERROR"
        /\ NoWarehouseSignal =>
               /\ fn_out.error_type = None
               /\ fn_out.update_row_calls = 1
               /\ fn_out.caught = ""
               /\ fn_in.env.api_ok => fn_out.success /\ "updated" \in fn_out.counted
               /\ ~fn_in.env.api_ok => ~fn_out.success /\ fn_out.counted = {"errors"}

\* signal-less logs and a quiet profile: PROVIDER_ERROR, written
C27_Witness ==
    /\ fn_done
    /\ QuietProfile
    /\ SignalLessLogs
    /\ fn_out.error_type = "PROVIDER_ERROR"
    /\ fn_out.success

\* get_booking_logs has returned a frame with at least one record
ReturnedRecords == fn_in.env.warehouse.ok /\ Len(fn_in.env.warehouse.rows) > 0

\* the row's classification is the one _detect_error_type found in the records
DerivedFromRecords ==
    /\ ReturnedRecords
    /\ Truthy(get_booking_logs(fn_in.env.warehouse).detected_error)
    /\ fn_out.error_type = get_booking_logs(fn_in.env.warehouse).detected_error

\* notes that say the logs are attached go with a log file given to update_row
AttachedNotesHaveFile ==
    fn_done /\ fn_out.success =>
        (Contains(fn_out.cells.round_1_notes, "logs attached") => fn_out.log_file)

\* C30: has_logs, as given to create_status_updates, is true exactly when the
\* warehouse returned at least one log record; so a row classified from the
\* records is not written with the "No logs available" notes, and notes that
\* say the logs are attached go with a log file passed as the attachment
C30_HasLogsIffRecords ==
    fn_done /\ fn_out.built # <<>> =>
        /\ fn_out.has_logs <=> ReturnedRecords
        /\ fn_out.success /\ DerivedFromRecords =>
               ~Contains(fn_out.cells.round_1_notes, "No logs available")
        /\ fn_out.success /\ Contains(fn_out.cells.round_1_notes, "logs attached") =>
               fn_out.log_file

----------------------------------------------------------------------------
(* Steps 6 and 7 of _process_dispute_row alone: create_status_updates and  *)
(* the rebooking substitution, called on an engine that is constructed and *)
(* a sheet that is filled                                                  *)

MaxBuildCalls == 2

\* the error types handed to create_status_updates: none, and what the
\* classifier and the profile service produce; one in lower case
BuildClassifications ==
    {None, "PROVIDER_ERROR", "BOOKING_FAILED", "FOO_ERROR", "GENERAL_ERROR",
     "BOOKING_NOT_FOUND", "BOOKING_INVALID", "CANCELLED_STATUS", "timeout_error"}

BuildInit ==
    /\ sheet \in InitialSheets
    /\ engine = FreshEngine
    /\ pc = "idle"
    /\ dispute_rows = <<>>
    /\ idx = 0
    /\ run = [r \in 1..NumRows |-> NoRun(sheet[r])]
    /\ last = NoLast
    /\ runs = 0
    /\ written = [r \in 1..NumRows |-> 0]
    /\ fn_in \in [error_type : BuildClassifications, has_logs : BOOLEAN,
                  client_reference : {"CR100"}, events : RowEvents]
    /\ fn_out = <<>>
    /\ fn_done = FALSE

\* updates: what create_status_updates returns; final: the updates after
\* the rebooking step of lines 148-151
BuildApply ==
    /\ Len(fn_out) < MaxBuildCalls
    /\ fn_out' = Append(fn_out,
           [updates |-> create_status_updates(fn_in.error_type, fn_in.has_logs),
            final   |-> build_updates(fn_in.client_reference, fn_in.error_type,
                                      fn_in.has_logs, fn_in.has_logs,
                                      check_rebooking_scenario(fn_in.events),
                                      fn_in.events).built])
    /\ fn_done' = TRUE
    /\ UNCHANGED <<fn_in, main_vars>>

BuildNext == BuildApply

SpecBuild == BuildInit /\ [][BuildNext]_vars

\* C14: with logs and a classification the notes cite the upper-cased
\* classification followed by " ERROR"; with logs and no classification the
\* notes are the generic provider error message; without logs the notes are
\* the "No logs available" message whatever the classification is
C14_PolicyTable ==
    fn_done =>
        LET notes == fn_out[1].updates.round_1_notes
        IN  /\ fn_in.has_logs /\ fn_in.error_type # None =>
                   /\ Contains(notes, upper(fn_in.error_type) \o " ERROR.")
                   /\ fn_in.error_type = "timeout_error" =>
                          Contains(notes, "met with an TIMEOUT_ERROR ERROR.")
            /\ fn_in.has_logs /\ fn_in.error_type = None =>
                   notes = "The booking was not confirmed by the supplier, please find the logs attached. Our request log shows a provider error."
            /\ ~fn_in.has_logs =>
                   notes = "Technical review completed. No logs available for this booking."

\* a lower-case classification is cited in upper case, with logs
C14_Witness ==
    /\ fn_done
    /\ fn_in.has_logs
    /\ fn_in.error_type = "timeout_error"
    /\ Contains(fn_out[1].updates.round_1_notes, "TIMEOUT_ERROR ERROR")

\* the rebooking context of the row
RowContext == check_rebooking_scenario(fn_in.env.events)

\* the supplier order id of the most recent cancellation of the history
MostRecentCancelled ==
    LET rows == fn_in.env.events.rows
        i == CHOOSE i \in 1..Len(rows) :
                 IsCancel(rows[i]) /\ \A j \in (i + 1)..Len(rows) : ~IsCancel(rows[j])
    IN  rows[i].supplier_order_id

\* C15: when the rebooking context of the row has is_rebooking true and
\* cancel_count > 0, the notes handed to the write-back are the rebooking
\* narrative with the most recent cancellation's supplier order id as the
\* old booking and the client reference as the new booking; otherwise they
\* are the classification-based notes
C15_NarrativeWheneverRebooking ==
    fn_done /\ fn_out.update_row_calls > 0 =>
        IF DOMAIN RowContext # {} /\ RowContext.is_rebooking /\ RowContext.cancel_count > 0
        THEN fn_out.built.round_1_notes =
                 "We have attempted to cancel this booking before the last day for a full refund - please find the attachments. We then immediately booked "
                 \o fn_in.cells.client_reference \o " after canceling " \o MostRecentCancelled \o "."
        ELSE fn_out.built.round_1_notes =
                 create_status_updates(fn_out.error_type, fn_out.has_logs).round_1_notes

----------------------------------------------------------------------------
(* The rebooking detector alone, over event histories                      *)

MaxEvents == 4

\* rows of booking_patch_events: a booking, and cancellations in two spellings
EventKinds ==
    {Event("booked", "SO-1"), Event("Cancelled by guest", "SO-1"),
     Event("CANCEL requested", "SO-2")}

RebookingInit ==
    /\ MainParked
    /\ fn_in \in [count_ok : BOOLEAN, cancel_ok : {TRUE},
                  rows : SeqsUpTo(EventKinds, MaxEvents)]
    /\ fn_out = <<>>
    /\ fn_done = FALSE

RebookingApply ==
    /\ ~fn_done
    /\ fn_out' = check_rebooking_scenario(fn_in)
    /\ fn_done' = TRUE
    /\ UNCHANGED <<fn_in, main_vars>>

RebookingNext == RebookingApply

SpecRebooking == RebookingInit /\ [][RebookingNext]_vars

\* the events of the history that are bookings, and those that are cancellations
BookEvents == {i \in 1..Len(fn_in.rows) : ~Contains(lower(fn_in.rows[i].reason), "cancel")}
CancelEvents == {i \in 1..Len(fn_in.rows) : Contains(lower(fn_in.rows[i].reason), "cancel")}

\* C16: for every event history for which a context is returned,
\* is_rebooking is true exactly when book_count > 1 or (cancel_count >= 1
\* and book_count >= 1); two bookings and one cancellation give true with
\* cancel_count 1; the empty history and a history of cancellations only
\* give false; the detector leaves the history as it is
C16_IsRebookingIff ==
    /\ [](fn_done /\ DOMAIN fn_out # {} =>
            /\ fn_out.book_count = Cardinality(BookEvents)
            /\ fn_out.cancel_count = Cardinality(CancelEvents)
            /\ fn_out.is_rebooking <=>
                   \/ Cardinality(BookEvents) > 1
                   \/ Cardinality(CancelEvents) >= 1 /\ Cardinality(BookEvents) >= 1
            /\ Cardinality(BookEvents) = 2 /\ Cardinality(CancelEvents) = 1 =>
                   fn_out.is_rebooking /\ fn_out.cancel_count = 1
            /\ Cardinality(BookEvents) = 0 => ~fn_out.is_rebooking)
    /\ [][RebookingApply => UNCHANGED <<fn_in, main_vars>>]_vars

\* two bookings without a cancellation are a rebooking
C16_Witness ==
    /\ fn_done
    /\ DOMAIN fn_out # {}
    /\ Cardinality(BookEvents) = 2
    /\ Cardinality(CancelEvents) = 0
    /\ fn_out.is_rebooking

\* the history holds no rebooking, or the detector returned no context
NoRebooking == DOMAIN RowContext = {} \/ ~RowContext.is_rebooking

\* scenario B: the row in the initial state, no logs, and a profile booking
\* that exists, carries no error entry and no cancellation log, and has one
\* of the statuses that make it invalid
ScenarioB ==
    /\ fn_in.cells = ScenarioCells
    /\ NoWarehouseSignal
    /\ fn_in.env.profile.reached
    /\ DOMAIN fn_in.env.profile.booking # {}
    /\ fn_in.env.profile.booking.errors = <<>>
    /\ fn_in.env.profile.cancellation_logs = <<>>
    /\ upper(fn_in.env.profile.booking.status) \in BAD_STATUSES
    /\ NoRebooking

\* C17: in scenario B the classification is BOOKING_INVALID and the notes
\* are the "No logs available" message
C17_ScenarioB ==
    fn_done /\ ScenarioB =>
        /\ fn_out.error_type = "BOOKING_INVALID"
        /\ fn_out.built.round_1_notes = "Technical review completed. No logs available for this booking."

\* scenario A: the row in the initial state, the warehouse returning one log
\* row with reason "provider error", the profile service returning a valid
\* booking, no rebooking, and the file and the store accepting what is written
ScenarioA ==
    /\ fn_in.cells = ScenarioCells
    /\ fn_in.env.warehouse = [ok |-> TRUE, rows |-> <<LogRecord("provider error", "", "", "")>>]
    /\ fn_in.env.profile.reached
    /\ fn_in.env.profile.booking = Booking("confirmed", <<>>)
    /\ fn_in.env.profile.cancellation_logs = <<>>
    /\ NoRebooking
    /\ fn_in.env.save_ok
    /\ fn_in.env.api_ok

\* C18: in scenario A the classification is PROVIDER_ERROR, the notes
\* contain "PROVIDER_ERROR ERROR", the three workflow cells hold the
\* processed triple and the row is counted as updated
C18_ScenarioA ==
    fn_done /\ ScenarioA =>
        /\ fn_out.error_type = "PROVIDER_ERROR"
        /\ fn_out.has_logs
        /\ Contains(fn_out.cells.round_1_notes, "PROVIDER_ERROR ERROR")
        /\ fn_out.cells.round_1_supplier_comments = "reviewed by ST technical team"
        /\ fn_out.cells.round_1_status = "will not pay"
        /\ fn_out.cells.round_1_completion = "ready to submit"
        /\ fn_out.success
        /\ fn_out.returned
        /\ fn_out.caught = ""
        /\ fn_out.counted = {"processed", "updated"}
        /\ fn_out.update_row_calls = 1

C18_Witness ==
    /\ fn_done
    /\ ScenarioA
    /\ fn_out.success
    /\ fn_out.cells.round_1_notes = "The booking was not confirmed by the supplier, please find the logs attached. Our request log was met with an PROVIDER_ERROR ERROR."

----------------------------------------------------------------------------
(* Startup: the process constructs the engine from its configuration and   *)
(* the columns of the sheet, and then calls run_automation once            *)

\* required_vars of Config.validate_config
RequiredVars ==
    {"SMARTSHEET_ACCESS_TOKEN", "SMARTSHEET_SHEET_ID", "SNOWFLAKE_ACCOUNT",
     "SNOWFLAKE_USER", "SNOWFLAKE_PASSWORD", "CP_API_KEY"}

\* validate_config not asking for the profile API key
validate_config_WithoutProfileKey(config) ==
    {var \in RequiredVars \ {"CP_API_KEY"} : ~Truthy(config[var])}

\* the missing_vars of validate_config, which raises when there are any
validate_config(config) == {var \in RequiredVars : ~Truthy(config[var])}

\* the missing_columns of _map_columns, which raises when there are any;
\* columns: the columns of the sheet, by the key their title has in
\* Config.DISPUTE_COLUMNS
_map_columns(columns) == {col_name \in DISPUTE_COLUMNS : col_name \notin columns}

\* initialize_integrations: whether the engine is constructed, and the
\* steps taken; connect_ok: the services accept the connections
initialize_integrations(config, columns, connect_ok) ==
    IF validate_config(config) # {}
    THEN [constructed |-> FALSE, calls |-> <<"validate_config">>]
    ELSE IF ~connect_ok
    THEN [constructed |-> FALSE, calls |-> <<"validate_config", "get_sheet">>]
    ELSE IF _map_columns(columns) # {}
    THEN [constructed |-> FALSE, calls |-> <<"validate_config", "get_sheet", "_map_columns">>]
    ELSE [constructed |-> TRUE,
          calls |-> <<"validate_config", "get_sheet", "_map_columns",
                      "snowflake.connect", "CustomerProfileIntegration">>]

FullConfig == [var \in RequiredVars |-> "set"]

\* the configurations: complete, one value not set, one value empty
StartupConfigs ==
    {FullConfig, [FullConfig EXCEPT !["SMARTSHEET_SHEET_ID"] = ""]}
        \cup {[FullConfig EXCEPT ![var] = None] : var \in RequiredVars}

\* the columns of the sheet: all required ones and another, or one missing
StartupColumns ==
    {DISPUTE_COLUMNS \cup {"ops_ticket"}}
        \cup {DISPUTE_COLUMNS \ {col_name} : col_name \in DISPUTE_COLUMNS}

StartupInit ==
    /\ sheet \in InitialSheets
    /\ engine = [alive |-> FALSE]
    /\ pc = "start"
    /\ dispute_rows = <<>>
    /\ idx = 0
    /\ run = [r \in 1..NumRows |-> NoRun(sheet[r])]
    /\ last = NoLast
    /\ runs = 0
    /\ written = [r \in 1..NumRows |-> 0]
    /\ fn_in \in [config : StartupConfigs, columns : StartupColumns, connect_ok : BOOLEAN]
    /\ fn_out = <<>>
    /\ fn_done = FALSE

\* DisputeAutomationEngine(): the exception of initialize_integrations ends
\* the process
Startup ==
    /\ pc = "start"
    /\ fn_out' = initialize_integrations(fn_in.config, fn_in.columns, fn_in.connect_ok)
    /\ fn_done' = TRUE
    /\ IF fn_out'.constructed
       THEN engine' = FreshEngine /\ pc' = "idle"
       ELSE engine' = engine /\ pc' = "exited"
    /\ UNCHANGED <<sheet, dispute_rows, idx, run, last, runs, written, fn_in>>

\* the one run_automation call of the process
StartupRun == runs = 0 /\ RunStart

StartupNext == Startup \/ StartupRun \/ ProcessNext \/ RunFinish

SpecStartup == StartupInit /\ [][StartupNext]_vars

\* a required credential or a required column is missing
StartupMissing ==
    \/ \E var \in RequiredVars : fn_in.config[var] \in {None, ""}
    \/ \E col_name \in DISPUTE_COLUMNS : col_name \notin fn_in.columns

\* C21: when a required credential or a required column is missing, engine
\* construction fails, and in that process no rows are listed, no row is
\* processed and no row is written
C21_MissingConfigFailsStartup ==
    /\ [](StartupMissing =>
            /\ pc \in {"start", "exited"}
            /\ ~engine.alive
            /\ runs = 0
            /\ dispute_rows = <<>>
            /\ \A r \in Rows : run[r].attempts = 0 /\ written[r] = 0 /\ sheet[r] = run[r].before)
    /\ [](fn_done /\ StartupMissing => ~fn_out.constructed)
    /\ [][StartupMissing => sheet' = sheet]_vars

\* the profile API key is not set: the process ended in validate_config
C21_Witness ==
    /\ pc = "exited"
    /\ fn_in.config["CP_API_KEY"] = None
    /\ fn_in.columns = DISPUTE_COLUMNS \cup {"ops_ticket"}
    /\ fn_in.connect_ok
    /\ fn_out.calls = <<"validate_config">>

=============================================================================
